---- MODULE Spec2Model ----
(***************************************************************************)
(* cindex (cmd/cindex/cindex.go): the driver that builds or updates the    *)
(* trigram index file.  The model follows main() statement by statement:   *)
(* flag dispatch, path canonicalisation, choice of the build file, the     *)
(* walk of every root, flush, and the merge / remove / rename publication. *)
(* The index package (Open, Create, AddPaths, Add, Flush, Merge) is not    *)
(* part of cindex.go; its operations are modelled from their contract.     *)
(*                                                                         *)
(* Specifications:                                                         *)
(*   Spec       one run of main on the files an earlier run can have left  *)
(*   SpecRuns   up to MaxRuns runs, one after the other                    *)
(*   SpecCanon  the path canonicalisation (lines 103-121) on every list    *)
(*              of up to MaxCanonLen arguments                             *)
(*   SpecWalk   the walk loop and flush (lines 148-176) on roots and file  *)
(*              trees with entries that cannot be inspected or opened      *)
(*   SpecOpen   the callback for plain files and openEncoded (lines        *)
(*              164-171, 188-210), statement by statement                  *)
(***************************************************************************)
EXTENDS Integers, Sequences, FiniteSets, TLC

VARIABLES
    pc,             \* the statement of main() executed next, or how the process ended
    listFlag,       \* *listFlag
    resetFlag,      \* *resetFlag (main sets it when the index file is missing)
    resetArg,       \* history: -reset as given on the command line
    encodingsFlag,  \* *encodingsFlag, split at the commas
    argv,           \* history: flag.Args() as given on the command line
    args,           \* args, rewritten in place by main
    file,           \* the file the index is built in
    nenc,           \* len(encodings)
    ix,             \* the IndexWriter of the run
    rooti,          \* position of "for _, arg := range args"
    todo,           \* entries filepath.Walk has still to visit under the current root
    walkErr,        \* history: position of the first root whose walk callback returned an error
    lateAdds,       \* history: number of files added after that error
    disk,           \* the three files the run touches
    disk0,          \* history: disk when the run started
    content,        \* the content of the file that changes between runs: 0, then 1
    unreadable,     \* files and directories os.Open fails for
    runs,           \* number of runs started
    renameErr,      \* history: os.Rename returned an error
    lstatErr,       \* entries os.Lstat fails for
    oe,             \* the call of openEncoded in progress and the stream it works on
    steps,          \* history: the calls of the run on the builder and the index files
    prev            \* history: the run before this one, when it was a completed incremental run

vars == << pc, listFlag, resetFlag, resetArg, encodingsFlag, argv, args, file, nenc, ix,
           rooti, todo, walkErr, lateAdds, disk, disk0, content, unreadable, runs,
           renameErr, lstatErr, oe, steps, prev >>

\* Everything but the call of openEncoded.
runVars == << pc, listFlag, resetFlag, resetArg, encodingsFlag, argv, args, file, nenc,
              ix, rooti, todo, walkErr, lateAdds, disk, disk0, content, unreadable, runs,
              renameErr, lstatErr, steps, prev >>

---------------------------------------------------------------------------
\* Bounds of the model.
MaxArgs == 2
MaxRuns == 2
MaxCanonLen == 3
MaxEnc == 2
MaxFiles == 2

---------------------------------------------------------------------------
\* The file tree.  PathOrder lists every path string in ascending byte order,
\* the order sort.Strings and the directory reads of filepath.Walk use.
PathOrder ==
    << "", "/a", "/a/.git", "/a/.git/c", "/a/f", "/a/g~", "/b", "/b/h", "/b/k",
       "/c", "/c/#t", "/c/s", "/c/w", "/c/~u", "/c/~u/v", "/l", "/l2" >>

Paths == { PathOrder[i] : i \in 1..Len(PathOrder) }

Rank(p) == CHOOSE i \in 1..Len(PathOrder) : PathOrder[i] = p

Dirs == { "/a", "/a/.git", "/b", "/c", "/c/~u" }

\* The plain files; "/c/s" is a socket, "/l" and "/l2" are symbolic links.
Files == { "/a/.git/c", "/a/f", "/a/g~", "/b/h", "/b/k", "/c/#t", "/c/w", "/c/~u/v" }

\* os.Readlink: "/l2" is a symbolic link to "/l", which is a symbolic link to "/a".
Readlink(p) == CASE p = "/l" -> "/a" [] p = "/l2" -> "/l" [] OTHER -> ""

\* The entries of a directory, in the order readDirNames returns them.
Children(p) ==
    CASE p = "/a" -> << "/a/.git", "/a/f", "/a/g~" >>
      [] p = "/a/.git" -> << "/a/.git/c" >>
      [] p = "/b" -> << "/b/h", "/b/k" >>
      [] p = "/c" -> << "/c/#t", "/c/s", "/c/w", "/c/~u" >>
      [] p = "/c/~u" -> << "/c/~u/v" >>
      [] OTHER -> << >>

\* The last element of the path (filepath.Split), as its characters.
Elem(p) ==
    CASE p = "/a" -> << "a" >>
      [] p = "/a/.git" -> << ".", "g", "i", "t" >>
      [] p = "/a/.git/c" -> << "c" >>
      [] p = "/a/f" -> << "f" >>
      [] p = "/a/g~" -> << "g", "~" >>
      [] p = "/b" -> << "b" >>
      [] p = "/b/h" -> << "h" >>
      [] p = "/b/k" -> << "k" >>
      [] p = "/c" -> << "c" >>
      [] p = "/c/#t" -> << "#", "t" >>
      [] p = "/c/s" -> << "s" >>
      [] p = "/c/w" -> << "w" >>
      [] p = "/c/~u" -> << "~", "u" >>
      [] p = "/c/~u/v" -> << "v" >>
      [] p = "/l" -> << "l" >>
      [] p = "/l2" -> << "l", "2" >>
      [] OTHER -> << >>

\* The content a file has now: only "/a/f" changes between runs.
Ver(f) == IF f = "/a/f" THEN content ELSE 0

---------------------------------------------------------------------------
\* Index files.
Master == "csearchindex"

Tilde(name) ==
    CASE name = "csearchindex" -> "csearchindex~"
      [] name = "csearchindex~" -> "csearchindex~~"

IndexFiles == { Master, Tilde(Master), Tilde(Tilde(Master)) }

\* Every path an index can hold entries for.
Entries == Paths \ { "" }

NoEnts == [ f \in Entries |-> << >> ]

NoFile == [ kind |-> "none", roots |-> << >>, ents |-> NoEnts ]

PartialFile == [ kind |-> "partial", roots |-> << >>, ents |-> NoEnts ]

IndexOf(roots, ents) == [ kind |-> "index", roots |-> roots, ents |-> ents ]

NoIx == [ open |-> FALSE, paths |-> << >>, ents |-> NoEnts ]

\* No call of openEncoded in progress.  The fields of a call:
\*   at        where the callback is: "callback" (line 164, a plain file found),
\*             "loop" (194), "seek" (199), "add" (169), "close" (170), "walkend"
\*   left      plain files the walk has still to process, this one included
\*   valid     for every candidate, whether its decoder reads the file without error
\*   seekFail  the candidate after whose attempt fh.Seek fails (0: never)
\*   i, found  the loop position and the candidate recorded (0: nil)
\*   pos       the position of fh: 0 at the start, 1 elsewhere
\*   open      the number of streams opened and not closed
\*   r         the reader returned: its decoder (0: none) and the position of fh
NoReader == [ dec |-> 0, pos |-> 0 ]

NoCall == [ at |-> "none", left |-> 0, valid |-> << >>, seekFail |-> 0, i |-> 0,
            found |-> 0, pos |-> 0, open |-> 0, r |-> NoReader ]

SeqToSet(s) == { s[i] : i \in 1..Len(s) }

\* No completed incremental run came before this run.  Otherwise: the
\* arguments of that run, the published index it left, and the content the
\* changing file had.
NoPrev == [ was |-> FALSE, argv |-> << >>, master |-> NoFile, content |-> 0 ]

\* One call of the run: index.Create, ix.AddPaths, ix.Add, ix.Flush,
\* index.Merge, os.Remove or os.Rename, and the index file it is made on.
Step(op, on) == [ op |-> op, on |-> on ]

---------------------------------------------------------------------------
\* main, lines 74-101: which branch the run takes after flag.Parse.
DispatchResetFirst(list, reset, nargs) ==
    IF reset /\ nargs = 0 THEN "reset"
    ELSE IF list THEN "list"
    ELSE IF nargs = 0 THEN "load"
    ELSE "abs"

Dispatch(list, reset, nargs) ==
    IF list THEN "list"
    ELSE IF reset /\ nargs = 0 THEN "reset"
    ELSE IF nargs = 0 THEN "load"
    ELSE "abs"

\* filepath.Abs: "r" is a relative path and the working directory cannot be
\* determined, so filepath.Abs fails for it; every other argument of the model
\* is an absolute, clean path.
Abs(arg) == IF arg = "r" THEN [ path |-> "", err |-> TRUE ] ELSE [ path |-> arg, err |-> FALSE ]

\* main, lines 106-115: one argument made absolute, one symbolic link followed.
ResolveArg(arg) ==
    LET r == Abs(arg)
        s == Readlink(r.path)
    IN  IF r.err THEN ""
        ELSE IF s # "" THEN s
        ELSE r.path

\* sort.Strings, as an insertion sort on the byte order of the strings.
RECURSIVE Insert(_, _)
Insert(x, s) ==
    IF s = << >> THEN << x >>
    ELSE IF Rank(x) <= Rank(Head(s)) THEN << x >> \o s
    ELSE << Head(s) >> \o Insert(x, Tail(s))

RECURSIVE SortStrings(_)
SortStrings(s) == IF s = << >> THEN << >> ELSE Insert(Head(s), SortStrings(Tail(s)))

\* main, lines 119-121: the leading empty strings are dropped.
RECURSIVE DropEmpty(_)
DropEmpty(s) == IF s # << >> /\ Head(s) = "" THEN DropEmpty(Tail(s)) ELSE s

\* main, lines 105-121.
Canon(as) == DropEmpty(SortStrings([ i \in 1..Len(as) |-> ResolveArg(as[i]) ]))

\* main, lines 123-127: os.Stat(master) fails when there is no index file.
StatAlwaysFails(d) == TRUE

StatNeverFails(d) == FALSE

StatFails(d) == d[Master].kind = "none"

\* main, lines 128-131: the file the index is built in.
BuildFileAlwaysMaster(reset) == Master

BuildFileAlwaysStaging(reset) == Tilde(Master)

BuildFile(reset) == IF reset THEN Master ELSE Tilde(Master)

\* strings.TrimSpace and htmlindex.Get on one name of the -encodings list.
TrimSpace(name) == IF name = " " THEN "" ELSE name

KnownEncoding(name) == name \in { "utf8", "iso8859-2" }

\* main, lines 132-143: the number of encodings collected and whether an
\* unknown name ended the run.
RECURSIVE ParseFrom(_, _, _)
ParseFrom(names, i, n) ==
    IF i > Len(names) THEN [ bad |-> FALSE, n |-> n ]
    ELSE IF TrimSpace(names[i]) = "" THEN ParseFrom(names, i + 1, n)
    ELSE IF ~KnownEncoding(TrimSpace(names[i])) THEN [ bad |-> TRUE, n |-> n ]
    ELSE ParseFrom(names, i + 1, n + 1)

RECURSIVE ParseIgnoringErrors(_, _, _)
ParseIgnoringErrors(names, i, n) ==
    IF i > Len(names) THEN [ bad |-> FALSE, n |-> n ]
    ELSE IF TrimSpace(names[i]) = "" \/ ~KnownEncoding(TrimSpace(names[i]))
         THEN ParseIgnoringErrors(names, i + 1, n)
    ELSE ParseIgnoringErrors(names, i + 1, n + 1)

ParseEncodingsLenient(names) == ParseIgnoringErrors(names, 1, 0)

ParseEncodings(names) == ParseFrom(names, 1, 0)

---------------------------------------------------------------------------
\* The walk callback, lines 150-173.
HiddenPrefixOnly(elem) ==
    /\ elem # << >>
    /\ elem[1] \in { ".", "#", "~" }

Hidden(elem) ==
    /\ elem # << >>
    /\ \/ elem[1] \in { ".", "#", "~" }
       \/ elem[Len(elem)] = "~"

\* openEncoded, lines 188-192: os.Open fails for an unreadable file.
OpenEncoded(path) == IF path \in unreadable THEN "err" ELSE "ok"

\* filepath.Walk hands the callback no file information (info == nil) for an
\* entry os.Lstat fails for, and the error of reading a directory it cannot open.
NoInfo(path) == path \in lstatErr

WalkError(path) == path \in lstatErr \/ (path \in Dirs /\ path \in unreadable)

\* What the callback does for one visited entry:
\*   "skipdir"  return filepath.SkipDir      "skip"   return nil for a hidden file
\*   "add"      ix.Add, return nil           "error"  return the error of openEncoded
\*   "logged"   log the error, return nil    "nil"    return nil for an entry that is no plain file
\*   "panic"    info.IsDir() is called on the nil info of a hidden entry
Callback(path) ==
    IF Hidden(Elem(path))
    THEN IF NoInfo(path) THEN "panic"
         ELSE IF path \in Dirs THEN "skipdir" ELSE "skip"
    ELSE IF WalkError(path) THEN "logged"
    ELSE IF path \in Files
         THEN IF OpenEncoded(path) = "err" THEN "error" ELSE "add"
         ELSE "nil"

\* ix.Add: one more entry for the file, holding the content read now.
AddEntry(ents, path) == [ ents EXCEPT ![path] = Append(@, Ver(path)) ]

\* One callback of filepath.Walk.  A directory the callback returns nil for is
\* read and its entries are visited before the entries still pending; an
\* error other than SkipDir ends the walk of the root; a panic ends the process.
VisitStep(w) ==
    LET p == Head(w.todo)
        out == Callback(p)
    IN  CASE out = "panic" ->
                [ todo |-> << >>, ents |-> w.ents, err |-> w.err, panic |-> TRUE ]
          [] out = "error" ->
                [ todo |-> << >>, ents |-> w.ents, err |-> TRUE, panic |-> w.panic ]
          [] out = "add" ->
                [ todo |-> Tail(w.todo), ents |-> AddEntry(w.ents, p), err |-> w.err,
                  panic |-> w.panic ]
          [] out = "nil" /\ p \in Dirs ->
                [ todo |-> Children(p) \o Tail(w.todo), ents |-> w.ents, err |-> w.err,
                  panic |-> w.panic ]
          [] OTHER ->
                [ todo |-> Tail(w.todo), ents |-> w.ents, err |-> w.err, panic |-> w.panic ]

RECURSIVE RunWalk(_)
RunWalk(w) == IF w.todo = << >> THEN w ELSE RunWalk(VisitStep(w))

\* The loop of lines 148-174 over all roots, as a function of the roots.
RECURSIVE WalkRoots(_, _, _)
WalkRoots(roots, i, ents) ==
    IF i > Len(roots) THEN ents
    ELSE LET w == RunWalk([ todo |-> << roots[i] >>, ents |-> ents, err |-> FALSE,
                            panic |-> FALSE ])
         IN  IF w.panic THEN w.ents ELSE WalkRoots(roots, i + 1, w.ents)

---------------------------------------------------------------------------
\* The index package.

\* index.Open: a missing or incomplete file is a fatal error.
Readable(f) == f.kind = "index"

\* The roots of two indexes in ascending order, each once.
RECURSIVE Uniq(_)
Uniq(s) ==
    IF Len(s) <= 1 THEN s
    ELSE IF s[1] = s[2] THEN Uniq(Tail(s))
    ELSE << Head(s) >> \o Uniq(Tail(s))

MergeRoots(r1, r2) == Uniq(SortStrings(r1 \o r2))

\* index.Merge(dst, src1, src2): src2 is the newer index; a file it holds
\* keeps the entries of src2, every other file those of src1.
IndexMerge(src1, src2) ==
    IndexOf(MergeRoots(src1.roots, src2.roots),
            [ f \in Entries |-> IF src2.ents[f] # << >> THEN src2.ents[f] ELSE src1.ents[f] ])

\* main, line 180: the merged index of the master and the newly built file.
MergedOlderWins(d, f) == IndexMerge(d[f], d[Master])

Merged(d, f) == IndexMerge(d[Master], d[f])

\* os.Remove
RemoveNothing(d, name) == d

Remove(d, name) == [ d EXCEPT ![name] = NoFile ]

\* os.Rename: the file at the new name is replaced as a whole.
RenameKeepsOld(d, old, new) == [ d EXCEPT ![new] = d[old] ]

Rename(d, old, new) == [ d EXCEPT ![new] = d[old], ![old] = NoFile ]

\* The index a completed run of "cindex as" builds in its build file.
Built(as) == IndexOf(Canon(as), WalkRoots(Canon(as), 1, NoEnts))

---------------------------------------------------------------------------
\* The command lines and the states the machine starts in.
RawArgs == { "/a", "/b", "/l2" }

ArgLists == UNION { [ 1..n -> RawArgs ] : n \in 0..MaxArgs }

EncodingLists == { << "utf8" >>, << " ", "bogus" >> }

UnreadableSets == { {}, { "/a/f" } }

\* The files a run can find when it starts: no index, the index an earlier
\* run built from nothing, the incomplete file a terminated build from nothing
\* left, and what a terminated incremental run "cindex /b" left beside the
\* index of "cindex /a": its staging file (terminated after flush) or the
\* merged file (terminated after the staging file was removed).
CleanDisk(m) == [ n \in IndexFiles |-> IF n = Master THEN m ELSE NoFile ]

KilledAfterFlush(m, as) ==
    [ n \in IndexFiles |-> IF n = Master THEN m
                           ELSE IF n = Tilde(Master) THEN Built(as)
                           ELSE NoFile ]

KilledAfterRemove(m, as) ==
    [ n \in IndexFiles |-> IF n = Master THEN m
                           ELSE IF n = Tilde(Master) THEN NoFile
                           ELSE IndexMerge(m, Built(as)) ]

InitDisks ==
    { CleanDisk(m) : m \in { NoFile, PartialFile } \cup { Built(as) : as \in ArgLists } }
        \cup { KilledAfterFlush(Built(<< "/a" >>), << "/b" >>),
               KilledAfterRemove(Built(<< "/a" >>), << "/b" >>) }

Stopped == { "idle", "exit", "fatal", "killed", "done", "panic" }

Running == { "list", "reset", "load", "abs", "stat", "enc", "create", "root", "walk",
             "flush", "merge", "remove", "rename" }

Init ==
    /\ pc = "idle"
    /\ listFlag = FALSE
    /\ resetFlag = FALSE
    /\ resetArg = FALSE
    /\ encodingsFlag = << >>
    /\ argv = << >>
    /\ args = << >>
    /\ file = ""
    /\ nenc = 0
    /\ ix = NoIx
    /\ rooti = 0
    /\ todo = << >>
    /\ walkErr = 0
    /\ lateAdds = 0
    /\ content = 0
    /\ unreadable \in UnreadableSets
    /\ lstatErr = {}
    /\ disk \in InitDisks
    /\ disk0 = disk
    /\ runs = 0
    /\ renameErr = FALSE
    /\ oe = NoCall
    /\ steps = << >>
    /\ prev = NoPrev

---------------------------------------------------------------------------
\* main, lines 70-72: a run starts with its flags and arguments parsed.
Start ==
    /\ pc = "idle"
    /\ \E l \in BOOLEAN, r \in BOOLEAN, e \in EncodingLists, as \in ArgLists :
          /\ listFlag' = l
          /\ resetFlag' = r
          /\ resetArg' = r
          /\ encodingsFlag' = e
          /\ argv' = as
          /\ args' = as
          /\ pc' = Dispatch(l, r, Len(as))
    /\ file' = ""
    /\ nenc' = 0
    /\ ix' = NoIx
    /\ rooti' = 0
    /\ todo' = << >>
    /\ walkErr' = 0
    /\ lateAdds' = 0
    /\ disk0' = disk
    /\ renameErr' = FALSE
    /\ steps' = << >>
    /\ runs' = runs + 1
    /\ UNCHANGED << disk, content, unreadable, lstatErr, oe, prev >>

\* main, lines 74-80: -list prints the recorded roots and returns.
List ==
    /\ pc = "list"
    /\ pc' = IF Readable(disk[Master]) THEN "exit" ELSE "fatal"
    /\ UNCHANGED << listFlag, resetFlag, resetArg, encodingsFlag, argv, args, file,
                    nenc, ix, rooti, todo, walkErr, lateAdds, disk, disk0, content,
                    unreadable, runs, renameErr, lstatErr, oe, steps, prev >>

\* main, lines 92-95: -reset without paths removes the index and returns.
ResetOnly ==
    /\ pc = "reset"
    /\ disk' = Remove(disk, Master)
    /\ pc' = "exit"
    /\ UNCHANGED << listFlag, resetFlag, resetArg, encodingsFlag, argv, args, file,
                    nenc, ix, rooti, todo, walkErr, lateAdds, disk0, content,
                    unreadable, runs, renameErr, lstatErr, oe, steps, prev >>

\* main, lines 96-101: without paths the recorded roots become the arguments.
LoadPaths ==
    /\ pc = "load"
    /\ IF Readable(disk[Master])
       THEN /\ args' = disk[Master].roots
            /\ pc' = "abs"
       ELSE /\ args' = args
            /\ pc' = "fatal"
    /\ UNCHANGED << listFlag, resetFlag, resetArg, encodingsFlag, argv, file, nenc, ix,
                    rooti, todo, walkErr, lateAdds, disk, disk0, content, unreadable,
                    runs, renameErr, lstatErr, oe, steps, prev >>

\* main, lines 103-121: the arguments are resolved, sorted and stripped.
Canonicalize ==
    /\ pc = "abs"
    /\ args' = Canon(args)
    /\ pc' = "stat"
    /\ UNCHANGED << listFlag, resetFlag, resetArg, encodingsFlag, argv, file, nenc, ix,
                    rooti, todo, walkErr, lateAdds, disk, disk0, content, unreadable,
                    runs, renameErr, lstatErr, oe, steps, prev >>

\* main, lines 123-131: a missing index file turns the run into a reset.
ChooseFile ==
    /\ pc = "stat"
    /\ resetFlag' = (resetFlag \/ StatFails(disk))
    /\ file' = BuildFile(resetFlag')
    /\ pc' = "enc"
    /\ UNCHANGED << listFlag, resetArg, encodingsFlag, argv, args, nenc, ix, rooti,
                    todo, walkErr, lateAdds, disk, disk0, content, unreadable, runs,
                    renameErr, lstatErr, oe, steps, prev >>

\* main, lines 132-143: an unknown encoding name ends the run.
Encodings ==
    /\ pc = "enc"
    /\ LET r == ParseEncodings(encodingsFlag)
       IN  /\ nenc' = r.n
           /\ pc' = IF r.bad THEN "exit" ELSE "create"
    /\ UNCHANGED << listFlag, resetFlag, resetArg, encodingsFlag, argv, args, file, ix,
                    rooti, todo, walkErr, lateAdds, disk, disk0, content, unreadable,
                    runs, renameErr, lstatErr, oe, steps, prev >>

\* main, lines 145-147: index.Create truncates the build file; AddPaths
\* records the roots in the writer.
Create ==
    /\ pc = "create"
    /\ disk' = [ disk EXCEPT ![file] = PartialFile ]
    /\ ix' = [ open |-> TRUE, paths |-> args, ents |-> NoEnts ]
    /\ rooti' = 1
    /\ steps' = steps \o << Step("create", file), Step("paths", file) >>
    /\ pc' = "root"
    /\ UNCHANGED << listFlag, resetFlag, resetArg, encodingsFlag, argv, args, file,
                    nenc, todo, walkErr, lateAdds, disk0, content, unreadable, runs,
                    renameErr, lstatErr, oe, prev >>

\* main, lines 148-150 and 174-175: the next root is walked, or the loop ends.
NextRootFirstOnly ==
    /\ pc = "root"
    /\ IF rooti <= Len(args) /\ rooti = 1
       THEN /\ todo' = << args[rooti] >>
            /\ pc' = "walk"
       ELSE /\ todo' = << >>
            /\ pc' = "flush"
    /\ UNCHANGED << listFlag, resetFlag, resetArg, encodingsFlag, argv, args, file,
                    nenc, ix, rooti, walkErr, lateAdds, disk, disk0, content,
                    unreadable, runs, renameErr, lstatErr, oe, steps, prev >>

NextRoot ==
    /\ pc = "root"
    /\ IF rooti <= Len(args)
       THEN /\ todo' = << args[rooti] >>
            /\ pc' = "walk"
       ELSE /\ todo' = << >>
            /\ pc' = "flush"
    /\ UNCHANGED << listFlag, resetFlag, resetArg, encodingsFlag, argv, args, file,
                    nenc, ix, rooti, walkErr, lateAdds, disk, disk0, content,
                    unreadable, runs, renameErr, lstatErr, oe, steps, prev >>

\* main, lines 150-173: filepath.Walk calls the callback for one entry.  The
\* value filepath.Walk returns is dropped, so after an error the loop goes on
\* with the next root.  A panic in the callback ends the process.
Visit ==
    /\ pc = "walk"
    /\ todo # << >>
    /\ LET w == VisitStep([ todo |-> todo, ents |-> ix.ents, err |-> FALSE, panic |-> FALSE ])
       IN  /\ todo' = w.todo
           /\ ix' = [ ix EXCEPT !.ents = w.ents ]
           /\ steps' = IF w.ents # ix.ents THEN Append(steps, Step("add", file)) ELSE steps
           /\ walkErr' = IF w.err /\ walkErr = 0 THEN rooti ELSE walkErr
           /\ lateAdds' = IF walkErr # 0 /\ w.ents # ix.ents THEN lateAdds + 1 ELSE lateAdds
           /\ IF w.panic
              THEN /\ rooti' = rooti
                   /\ pc' = "panic"
              ELSE IF w.todo = << >>
              THEN /\ rooti' = rooti + 1
                   /\ pc' = "root"
              ELSE /\ rooti' = rooti
                   /\ pc' = "walk"
    /\ UNCHANGED << listFlag, resetFlag, resetArg, encodingsFlag, argv, args, file,
                    nenc, disk, disk0, content, unreadable, runs, renameErr, lstatErr,
                    oe, prev >>

\* main, lines 175-177: ix.Flush writes the index into the build file.
Flush ==
    /\ pc = "flush"
    /\ disk' = [ disk EXCEPT ![file] = IndexOf(ix.paths, ix.ents) ]
    /\ ix' = [ ix EXCEPT !.open = FALSE ]
    /\ steps' = Append(steps, Step("flush", file))
    /\ pc' = IF resetFlag THEN "done" ELSE "merge"
    /\ UNCHANGED << listFlag, resetFlag, resetArg, encodingsFlag, argv, args, file,
                    nenc, rooti, todo, walkErr, lateAdds, disk0, content, unreadable,
                    runs, renameErr, lstatErr, oe, prev >>

\* main, lines 179-180: index.Merge writes the merged index into file~.
Merge ==
    /\ pc = "merge"
    /\ steps' = Append(steps, Step("merge", Tilde(file)))
    /\ IF Readable(disk[Master]) /\ Readable(disk[file])
       THEN /\ disk' = [ disk EXCEPT ![Tilde(file)] = Merged(disk, file) ]
            /\ pc' = "remove"
       ELSE /\ disk' = disk
            /\ pc' = "fatal"
    /\ UNCHANGED << listFlag, resetFlag, resetArg, encodingsFlag, argv, args, file,
                    nenc, ix, rooti, todo, walkErr, lateAdds, disk0, content,
                    unreadable, runs, renameErr, lstatErr, oe, prev >>

\* main, line 181: os.Remove(file)
RemoveStaging ==
    /\ pc = "remove"
    /\ disk' = Remove(disk, file)
    /\ pc' = "rename"
    /\ steps' = Append(steps, Step("remove", file))
    /\ UNCHANGED << listFlag, resetFlag, resetArg, encodingsFlag, argv, args, file,
                    nenc, ix, rooti, todo, walkErr, lateAdds, disk0, content,
                    unreadable, runs, renameErr, lstatErr, oe, prev >>

\* main, lines 182-185: os.Rename(file+"~", master); the error it returns is
\* not looked at, "done" is logged and main returns.
Publish ==
    /\ pc = "rename"
    /\ \E failed \in BOOLEAN :
          /\ renameErr' = failed
          /\ disk' = IF failed THEN disk ELSE Rename(disk, Tilde(file), Master)
    /\ pc' = "done"
    /\ steps' = Append(steps, Step("rename", Master))
    /\ UNCHANGED << listFlag, resetFlag, resetArg, encodingsFlag, argv, args, file,
                    nenc, ix, rooti, todo, walkErr, lateAdds, disk0, content,
                    unreadable, runs, lstatErr, oe, prev >>

\* The process is terminated between two statements of main: what it held in
\* memory is gone, the files stay as they are.
Kill ==
    /\ pc \in Running
    /\ pc' = "killed"
    /\ resetFlag' = FALSE
    /\ args' = << >>
    /\ file' = ""
    /\ nenc' = 0
    /\ ix' = NoIx
    /\ rooti' = 0
    /\ todo' = << >>
    /\ UNCHANGED << listFlag, resetArg, encodingsFlag, argv, walkErr, lateAdds, disk,
                    disk0, content, unreadable, runs, renameErr, lstatErr, oe, steps,
                    prev >>

\* Before a run the content of "/a/f" changes.
Touch ==
    /\ pc = "idle"
    /\ content = 0
    /\ content' = 1
    /\ UNCHANGED << pc, listFlag, resetFlag, resetArg, encodingsFlag, argv, args, file,
                    nenc, ix, rooti, todo, walkErr, lateAdds, disk, disk0, unreadable,
                    runs, renameErr, lstatErr, oe, steps, prev >>

\* The process has ended; cindex can be run again on the files it left.
Exit ==
    /\ pc \in Stopped \ { "idle" }
    /\ runs < MaxRuns
    /\ pc' = "idle"
    /\ listFlag' = FALSE
    /\ resetFlag' = FALSE
    /\ resetArg' = FALSE
    /\ encodingsFlag' = << >>
    /\ argv' = << >>
    /\ args' = << >>
    /\ file' = ""
    /\ nenc' = 0
    /\ ix' = NoIx
    /\ rooti' = 0
    /\ todo' = << >>
    /\ walkErr' = 0
    /\ lateAdds' = 0
    /\ disk0' = disk
    /\ renameErr' = FALSE
    /\ steps' = << >>
    /\ prev' = IF pc = "done" /\ ~listFlag /\ ~resetFlag /\ ~renameErr
               THEN [ was |-> TRUE, argv |-> argv, master |-> disk[Master], content |-> content ]
               ELSE NoPrev
    /\ UNCHANGED << disk, content, unreadable, runs, lstatErr, oe >>

Next ==
    \/ Start
    \/ List
    \/ ResetOnly
    \/ LoadPaths
    \/ Canonicalize
    \/ ChooseFile
    \/ Encodings
    \/ Create
    \/ NextRoot
    \/ Visit
    \/ Flush
    \/ Merge
    \/ RemoveStaging
    \/ Publish
    \/ Kill
    \/ Touch

\* One run of cindex on the files it finds.
Spec == Init /\ [][Next]_vars

\* Lines 103-121 alone, on every list of up to MaxCanonLen arguments: plain
\* paths, the two symbolic links, and the path filepath.Abs fails for.
RawCanon == { "/a", "/b", "/l", "/l2", "r" }

CanonInputs == UNION { [ 1..n -> RawCanon ] : n \in 0..MaxCanonLen }

InitCanon ==
    /\ pc = "abs"
    /\ listFlag = FALSE
    /\ resetFlag = FALSE
    /\ resetArg = FALSE
    /\ encodingsFlag = << >>
    /\ argv \in CanonInputs
    /\ args = argv
    /\ file = ""
    /\ nenc = 0
    /\ ix = NoIx
    /\ rooti = 0
    /\ todo = << >>
    /\ walkErr = 0
    /\ lateAdds = 0
    /\ content = 0
    /\ unreadable = {}
    /\ disk = CleanDisk(NoFile)
    /\ disk0 = disk
    /\ runs = 1
    /\ renameErr = FALSE
    /\ lstatErr = {}
    /\ oe = NoCall
    /\ steps = << >>
    /\ prev = NoPrev

NextCanon == Canonicalize

SpecCanon == InitCanon /\ [][NextCanon]_vars

\* Lines 148-176 alone: the walk of up to MaxArgs roots by a builder just
\* created at an empty index location, for roots that are directories, a
\* hidden directory, a file with a temporary name and a symbolic link, in file
\* trees where os.Lstat or os.Open fails for some entries.
WalkArgs == { "/a", "/a/.git", "/a/g~", "/b", "/c", "/l" }

WalkInputs == UNION { [ 1..n -> WalkArgs ] : n \in 1..MaxArgs }

InitWalk ==
    /\ pc = "root"
    /\ listFlag = FALSE
    /\ resetFlag = TRUE
    /\ resetArg = FALSE
    /\ encodingsFlag = << >>
    /\ argv \in WalkInputs
    /\ args = Canon(argv)
    /\ file = BuildFile(resetFlag)
    /\ nenc = 0
    /\ ix = [ open |-> TRUE, paths |-> args, ents |-> NoEnts ]
    /\ rooti = 1
    /\ todo = << >>
    /\ walkErr = 0
    /\ lateAdds = 0
    /\ content = 0
    /\ unreadable \in SUBSET { "/a/f", "/b" }
    /\ lstatErr \in SUBSET { "/a/g~", "/b/k", "/c" }
    /\ disk0 = CleanDisk(NoFile)
    /\ disk = [ disk0 EXCEPT ![file] = PartialFile ]
    /\ runs = 1
    /\ renameErr = FALSE
    /\ oe = NoCall
    /\ steps = << Step("create", file), Step("paths", file) >>
    /\ prev = NoPrev

NextWalk ==
    \/ NextRoot
    \/ Visit
    \/ Flush

SpecWalk == InitWalk /\ [][NextWalk]_vars

---------------------------------------------------------------------------
\* The callback for the plain files of one walk, lines 164-171, and
\* openEncoded, lines 188-210, statement by statement.

\* openEncoded, lines 196-198: a candidate that decodes the file replaces the
\* one recorded before.
FirstFound(found, i, ok) == IF ok /\ found = 0 THEN i ELSE found

NextFound(found, i, ok) == IF ok THEN i ELSE found

InitOpen ==
    /\ pc = "walk"
    /\ listFlag = FALSE
    /\ resetFlag = TRUE
    /\ resetArg = FALSE
    /\ encodingsFlag = << >>
    /\ argv = << >>
    /\ args = << >>
    /\ file = BuildFile(resetFlag)
    /\ nenc \in 0..MaxEnc
    /\ ix = [ open |-> TRUE, paths |-> args, ents |-> NoEnts ]
    /\ rooti = 1
    /\ todo = << >>
    /\ walkErr = 0
    /\ lateAdds = 0
    /\ content = 0
    /\ unreadable = {}
    /\ lstatErr = {}
    /\ disk0 = CleanDisk(NoFile)
    /\ disk = [ disk0 EXCEPT ![file] = PartialFile ]
    /\ runs = 1
    /\ renameErr = FALSE
    /\ \E n \in 1..MaxFiles : oe = [ NoCall EXCEPT !.at = "callback", !.left = n ]
    /\ steps = << Step("create", file), Step("paths", file) >>
    /\ prev = NoPrev

\* Lines 164-165 and 189-192: os.Open; when it fails the callback returns the
\* error and the walk ends.
OpenFile ==
    /\ oe.at = "callback"
    /\ \E failed \in BOOLEAN, v \in [ 1..nenc -> BOOLEAN ], s \in 0..nenc :
          oe' = IF failed
                THEN [ oe EXCEPT !.at = "walkend" ]
                ELSE [ oe EXCEPT !.at = "loop", !.valid = v, !.seekFail = s, !.i = 1,
                                 !.found = 0, !.pos = 0, !.open = @ + 1, !.r = NoReader ]
    /\ UNCHANGED runVars

\* Lines 194-198: the decoder of the candidate reads fh to the end or to the
\* first error.
Probe ==
    /\ oe.at = "loop"
    /\ oe.i <= nenc
    /\ oe' = [ oe EXCEPT !.found = NextFound(oe.found, oe.i, oe.valid[oe.i]),
                         !.pos = 1, !.at = "seek" ]
    /\ UNCHANGED runVars

\* Lines 199-201: fh.Seek(0, 0); when it fails openEncoded returns the error,
\* the callback returns it (lines 166-168) and the walk ends.
Seek ==
    /\ oe.at = "seek"
    /\ oe' = IF oe.seekFail = oe.i
             THEN [ oe EXCEPT !.at = "walkend" ]
             ELSE [ oe EXCEPT !.pos = 0, !.i = @ + 1, !.at = "loop" ]
    /\ UNCHANGED runVars

\* Lines 203-209: fh itself, or fh behind the decoder of the candidate found.
ReturnReader ==
    /\ oe.at = "loop"
    /\ oe.i > nenc
    /\ oe' = [ oe EXCEPT !.r = [ dec |-> oe.found, pos |-> oe.pos ], !.at = "add" ]
    /\ UNCHANGED runVars

\* Line 169: ix.Add(path, r) reads r to its end.
Add ==
    /\ oe.at = "add"
    /\ oe' = [ oe EXCEPT !.pos = 1, !.at = "close" ]
    /\ UNCHANGED runVars

\* Lines 170-172: r.Close() closes fh; the callback returns nil and the walk
\* goes on with the next plain file, or ends.
Close ==
    /\ oe.at = "close"
    /\ oe' = [ oe EXCEPT !.open = @ - 1, !.left = @ - 1,
                         !.at = IF oe.left > 1 THEN "callback" ELSE "walkend" ]
    /\ UNCHANGED runVars

NextOpen ==
    \/ OpenFile
    \/ Probe
    \/ Seek
    \/ ReturnReader
    \/ Add
    \/ Close

SpecOpen == InitOpen /\ [][NextOpen]_vars

\* Up to MaxRuns runs, one after the other.
NextRuns == Next \/ Exit

SpecRuns == Init /\ [][NextRuns]_vars

---------------------------------------------------------------------------
\* Notions the properties below share.

\* The run was started without -reset on an existing index file.
Incremental == ~resetArg /\ disk0[Master].kind # "none"

\* The run was started with -reset, or with no index file.
Direct == resetArg \/ disk0[Master].kind = "none"

\* The -encodings list holds a name htmlindex does not know.
BadList(names) ==
    \E i \in 1..Len(names) : TrimSpace(names[i]) # "" /\ ~KnownEncoding(TrimSpace(names[i]))

Staging == Tilde(Master)

MergedTemp == Tilde(Tilde(Master))

\* Every entry the writer of this run holds has the content the file has now.
FreshEntries == \A f \in Files : \A i \in 1..Len(ix.ents[f]) : ix.ents[f][i] = Ver(f)

\* The published index after a completed run "cindex as" without -reset.
After(m, as) == IF m.kind = "none" THEN Built(as) ELSE IndexMerge(m, Built(as))

\* Two index files record the same roots and hold the same entries for every file.
SameIndex(x, y) ==
    /\ x.kind = y.kind
    /\ SeqToSet(x.roots) = SeqToSet(y.roots)
    /\ x.ents = y.ents

---------------------------------------------------------------------------
\* C1: in an incremental run (index file present, no -reset) the published
\* index file holds exactly what it held when the run started in every state
\* before the rename has been done, also after the process was terminated.
C1_MasterUntouchedBeforeRename ==
    (Incremental /\ pc \notin { "idle", "done" }) => disk[Master] = disk0[Master]

\* An incremental run terminated after the merge and the removal of the
\* staging file: the merged file is there, the published index is the old one.
C1_Witness ==
    /\ pc = "killed"
    /\ Incremental
    /\ ~listFlag
    /\ Readable(disk0[Master])
    /\ disk0[MergedTemp].kind = "none"
    /\ Readable(disk[MergedTemp])
    /\ disk[Staging].kind = "none"
    /\ disk[MergedTemp] # disk[Master]
    /\ disk[Master] = disk0[Master]

\* C2 as stated: in every state of a run, in either mode, that found no file
\* or a complete index at the published location, the published location
\* holds no file or a complete index.
C2_NeverPartial ==
    disk0[Master].kind \in { "none", "index" } => disk[Master].kind \in { "none", "index" }

\* C2 as amended: a run started on a complete or absent published index leaves
\* an incomplete file at the published location only in direct mode, between
\* index.Create and the end of ix.Flush (or when terminated there); an
\* incremental run on a complete index keeps a complete index there throughout.
C2_PartialOnlyInDirectBuild ==
    /\ (disk[Master].kind = "partial" /\ disk0[Master].kind # "partial")
          => (Direct /\ ~listFlag /\ pc \in { "root", "walk", "flush", "killed" })
    /\ (Incremental /\ Readable(disk0[Master])) => Readable(disk[Master])

\* A -reset run with paths on an existing index, terminated during the build.
C2_Witness ==
    /\ pc = "killed"
    /\ resetArg
    /\ argv # << >>
    /\ Readable(disk0[Master])
    /\ disk[Master].kind = "partial"

C4_OneRunEqualsTwoRuns ==
    (/\ pc = "done"
     /\ ~listFlag
     /\ ~resetArg
     /\ ~renameErr
     /\ Len(argv) = 2
     /\ disk0[Master].kind \in { "none", "index" })
        => SameIndex(disk[Master],
                     After(After(disk0[Master], << argv[1] >>), << argv[2] >>))

\* C5 as stated: a run without paths, -list and -reset registers and walks
\* exactly the recorded roots, and the recorded roots are the same afterwards.
C5_NoPathsKeepsRoots ==
    (~listFlag /\ ~resetArg /\ argv = << >> /\ Readable(disk0[Master])) =>
        /\ pc \in { "stat", "enc", "create", "root", "walk", "flush", "merge", "remove",
                    "rename", "done" }
              => SeqToSet(args) = SeqToSet(disk0[Master].roots)
        /\ (pc = "done" /\ ~renameErr)
              => SeqToSet(disk[Master].roots) = SeqToSet(disk0[Master].roots)

\* C6 as stated: a -reset run without paths ends with no published index, no
\* staging file and no merged temporary file.
C6_ResetLeavesNothing ==
    (pc = "exit" /\ ~listFlag /\ resetArg /\ argv = << >>) =>
        \A n \in IndexFiles : disk[n].kind = "none"

\* C6 as amended: a -reset run without paths (and without -list) ends with no
\* published index and builds none; it creates no staging or merged temporary
\* file and removes none: what an earlier run left there is still there.
C6_ResetRemovesOnlyMaster ==
    (pc = "exit" /\ ~listFlag /\ resetArg /\ argv = << >>) =>
        /\ disk[Master].kind = "none"
        /\ disk[Staging] = disk0[Staging]
        /\ disk[MergedTemp] = disk0[MergedTemp]
        /\ ix = NoIx

\* A -reset run without paths after a terminated incremental run: the
\* published index is gone, the staging file of the terminated run is not.
C6_Witness ==
    /\ pc = "exit"
    /\ ~listFlag
    /\ resetArg
    /\ argv = << >>
    /\ Readable(disk0[Master])
    /\ disk[Master].kind = "none"
    /\ disk[Staging].kind # "none"

\* C7: a completed run with -reset and path arguments publishes exactly the
\* index of the paths of this run: its roots are the resolved arguments, its
\* entries the files added now; the staging and merged temporary locations are
\* not touched.
C7_ResetWithPathsReplaces ==
    (pc = "done" /\ resetArg /\ argv # << >>) =>
        /\ disk[Master] = Built(argv)
        /\ disk[Master].ents = ix.ents
        /\ FreshEntries
        /\ disk[Staging] = disk0[Staging]
        /\ disk[MergedTemp] = disk0[MergedTemp]

\* A -reset run with paths that dropped a root and an entry of the old index.
C7_Witness ==
    /\ pc = "done"
    /\ resetArg
    /\ argv # << >>
    /\ Readable(disk0[Master])
    /\ \E r \in SeqToSet(disk0[Master].roots) : r \notin SeqToSet(disk[Master].roots)
    /\ \E f \in Files : disk0[Master].ents[f] # << >> /\ disk[Master].ents[f] = << >>
    /\ \E g \in Files : disk[Master].ents[g] # << >>

\* C8: a run with -list, whatever the other flags and arguments, changes no
\* file, creates no writer, walks nothing, and ends after reading the roots.
C8_ListChangesNothing ==
    (listFlag /\ pc # "idle") =>
        /\ disk = disk0
        /\ ix = NoIx
        /\ todo = << >>
        /\ pc \in { "list", "exit", "fatal", "killed" }

\* -list given together with -reset and no paths, on an existing index.
C8_Witness ==
    /\ listFlag
    /\ resetArg
    /\ argv = << >>
    /\ pc = "exit"
    /\ Readable(disk[Master])

\* C9 as stated: with an unknown name in -encodings no run, whatever its other
\* flags and arguments, creates or changes an index file or creates a writer
\* (stated for the runs that find a complete index or none).
C9_BadEncodingChangesNothing ==
    (BadList(encodingsFlag) /\ pc # "idle" /\ disk0[Master].kind # "partial")
        => (disk = disk0 /\ ix = NoIx)

\* C9 as amended: with an unknown name in -encodings every run except a -reset
\* run without paths and without -list leaves the three files unchanged,
\* creates no writer and never gets to index.Create; the -reset run without
\* paths removes the published index before the encodings are looked at.
C9_BadEncodingAbortsBeforeCreate ==
    (BadList(encodingsFlag) /\ pc # "idle") =>
        /\ ~(resetArg /\ argv = << >> /\ ~listFlag) =>
              /\ disk = disk0
              /\ ix = NoIx
              /\ pc \notin { "create", "root", "walk", "flush", "merge", "remove",
                             "rename", "done" }
        /\ (resetArg /\ argv = << >> /\ ~listFlag /\ pc = "exit") =>
              disk = Remove(disk0, Master)

\* A -reset run with paths and an unknown encoding name, ended at the parse.
C9_Witness ==
    /\ BadList(encodingsFlag)
    /\ pc = "exit"
    /\ ~listFlag
    /\ resetArg
    /\ argv # << >>
    /\ Readable(disk0[Master])
    /\ disk = disk0

\* C10 as stated: once openEncoded has failed in the walk of a root, no entry
\* is visited or added any more and the run neither walks another root nor
\* flushes nor publishes.
C10_OpenFailureStopsRun ==
    walkErr # 0 =>
        /\ pc \in { "root", "fatal", "killed" }
        /\ lateAdds = 0

\* C11 as stated: in an incremental run a failed merge is fatal, removes no
\* staging file and attempts no rename; a failed rename does not let the run
\* finish as a normal completion; in both cases the published index holds
\* what it held before the run.
C11_MergeOrRenameFailureIsFatal ==
    (Incremental /\ ~listFlag) =>
        /\ (pc = "fatal" /\ file = Staging) =>
              /\ disk[Staging].kind # "none"
              /\ disk[MergedTemp] = disk0[MergedTemp]
              /\ disk[Master] = disk0[Master]
        /\ renameErr =>
              /\ pc # "done"
              /\ disk[Master] = disk0[Master]

\* C12 as stated: the target list main hands to the index builder and walks is
\* in strictly ascending order (sorted, no path twice), holds no empty string,
\* and is the same for every permutation of the arguments.
Count(s, x) == Cardinality({ i \in 1..Len(s) : s[i] = x })

IsPermutation(s, u) == Len(s) = Len(u) /\ \A x \in RawCanon : Count(s, x) = Count(u, x)

C12_TargetsSortedUnique ==
    pc = "stat" =>
        /\ \A i \in 1..Len(args) : \A j \in 1..Len(args) :
              i < j => Rank(args[i]) < Rank(args[j])
        /\ \A i \in 1..Len(args) : args[i] # ""
        /\ \A u \in CanonInputs : IsPermutation(argv, u) => Canon(u) = args

\* The directory an entry of the file tree lies in.
HasParent(p) == \E d \in Dirs : p \in SeqToSet(Children(d))

Parent(p) == CHOOSE d \in Dirs : p \in SeqToSet(Children(d))

\* The entry lies in the tree of the root.
RECURSIVE Under(_, _)
Under(root, p) == p = root \/ (HasParent(p) /\ Under(root, Parent(p)))

\* The directories visited on the way from the root down to the entry.
RECURSIVE Above(_, _)
Above(root, p) == IF p = root \/ ~HasParent(p) THEN { } ELSE { Parent(p) } \cup Above(root, Parent(p))

\* The base name starts with '.', '#' or '~' or ends with '~'.
SkipName(elem) ==
    elem # << >> /\ (elem[1] = "." \/ elem[1] = "#" \/ elem[1] = "~" \/ elem[Len(elem)] = "~")

\* The entry may be added in the walk of the root.
Addable(root, p) ==
    /\ Under(root, p)
    /\ p \in Files
    /\ ~SkipName(Elem(p))
    /\ \A d \in Above(root, p) : ~SkipName(Elem(d))

\* C13: whatever the roots and the failing entries, an entry the builder holds
\* (and the index flush writes) is a plain file under a root whose base name,
\* like that of every directory from the root down to it, matches no skip
\* rule; no entry below a directory with a matching name waits to be visited.
C13_OnlyUnskippedPlainFilesAdded ==
    /\ \A p \in Entries :
          (ix.ents[p] # << >> \/ disk[Master].ents[p] # << >>)
              => \E i \in 1..Len(args) : Addable(args[i], p)
    /\ \A k \in 1..Len(todo) :
          \A d \in Above(args[rooti], todo[k]) : ~SkipName(Elem(d))

\* A completed walk of "/a" and "/c": the plain files with ordinary names
\* were added; the files with matching names, the files below ".git" and
\* "~u" and the socket were not.
C13_Witness ==
    /\ pc = "done"
    /\ args = << "/a", "/c" >>
    /\ disk[Master].ents["/a/f"] # << >>
    /\ disk[Master].ents["/c/w"] # << >>
    /\ \A p \in { "/a/.git/c", "/a/g~", "/c/#t", "/c/s", "/c/~u/v" } :
          disk[Master].ents[p] = << >>

\* C20 as stated: an entry filepath.Walk reports an error for is skipped and
\* neither the walk nor the run stops, whatever the base name of the entry;
\* the callback never uses the file information of an entry that has none.
C20_TraversalErrorSkipsEntry ==
    /\ pc # "panic"
    /\ \A p \in lstatErr : ix.ents[p] = << >>
    /\ (unreadable \cap Files = { }) => walkErr = 0

\* The last candidate whose decoder reads the whole file without error (0: none).
LastValid(v) ==
    LET ok == { k \in 1..Len(v) : v[k] }
    IN  IF ok = { } THEN 0 ELSE CHOOSE k \in ok : \A j \in ok : j <= k

\* C14: the reader openEncoded hands to ix.Add decodes with the last candidate
\* of the list that validates, is the raw stream when none validates or the list
\* is empty, and has the underlying stream at its start.
C14_LastValidCandidateWins ==
    oe.at = "add" =>
        /\ Len(oe.valid) = nenc
        /\ oe.r.dec = LastValid(oe.valid)
        /\ oe.r.pos = 0
        /\ oe.pos = 0

\* Two candidates that both validate: the reader handed on uses the second.
C14_Witness ==
    /\ oe.at = "add"
    /\ oe.valid = << TRUE, TRUE >>
    /\ oe.r.dec = 2

\* C19 as stated: at most one stream is open at any time, and none is open
\* when the callback is entered for the next file or when the walk has ended,
\* normally or by an error.
C19_StreamsClosedOnEveryPath ==
    /\ oe.open <= 1
    /\ oe.at \in { "callback", "walkend" } => oe.open = 0

\* The calls of the given kinds the run has made, in order.
Called(ops) == SelectSeq(steps, LAMBDA s : s.op \in ops)

\* The run is past the choice of the build file and its process is alive or
\* has returned from main.
FileChosen == pc \in { "enc", "create", "root", "walk", "flush", "merge", "remove", "rename", "done" }

\* C16: the build file is the published location exactly when -reset was given
\* or no file was at the published location, and the staging location
\* otherwise; the builder is created on it and on nothing else; merge, remove
\* and rename are called only in runs that built in the staging location, after
\* the flush, and a completed run has called them exactly when it built there.
C16_BuildTargetChosenOnce ==
    /\ FileChosen =>
          /\ file = (IF Direct THEN Master ELSE Staging)
          /\ resetFlag <=> Direct
    /\ \A k \in 1..Len(steps) :
          /\ steps[k].op \in { "create", "paths", "add", "flush" }
                => steps[k].on = (IF Direct THEN Master ELSE Staging)
          /\ steps[k].op \in { "merge", "remove", "rename" }
                => /\ ~Direct
                   /\ \E j \in 1..(k - 1) : steps[j] = Step("flush", Staging)
    /\ Direct => (disk[Staging] = disk0[Staging] /\ disk[MergedTemp] = disk0[MergedTemp])
    /\ pc = "done" =>
          Called({ "merge", "remove", "rename" }) =
              IF Direct THEN << >>
              ELSE << Step("merge", MergedTemp), Step("remove", Staging), Step("rename", Master) >>

\* A completed run without -reset that found no index file: it built in the
\* published location and called neither merge nor rename.
C16_Witness ==
    /\ pc = "done"
    /\ ~resetArg
    /\ disk0[Master].kind = "none"
    /\ file = Master
    /\ Called({ "create" }) = << Step("create", Master) >>
    /\ Called({ "merge", "remove", "rename" }) = << >>
    /\ Readable(disk[Master])

\* The publish steps of the code, in order.
PublishSteps ==
    << Step("flush", Staging), Step("merge", MergedTemp), Step("remove", Staging),
       Step("rename", Master) >>

\* C17 as stated: a completed incremental run has flushed, merged, deleted
\* the staging file, deleted the old published index and renamed the merged
\* file, in this order, and leaves no staging and no merged temporary file.
C17_OldIndexDeletedBeforeRename ==
    (pc = "done" /\ Incremental /\ ~listFlag /\ ~renameErr) =>
        /\ Called({ "flush", "merge", "remove", "rename" }) =
              << Step("flush", Staging), Step("merge", MergedTemp), Step("remove", Staging),
                 Step("remove", Master), Step("rename", Master) >>
        /\ disk[Staging].kind = "none"
        /\ disk[MergedTemp].kind = "none"

\* C17 as amended: in an incremental run the calls are flush, merge into the
\* merged temporary file, removal of the staging file, rename onto the
\* published location, each only after the one before; the published index is
\* never removed, the rename replaces it; after a completed run whose rename
\* succeeded neither the staging nor the merged temporary file exists.
C17_FlushMergeRemoveRename ==
    (Incremental /\ ~listFlag) =>
        /\ \E n \in 0..Len(PublishSteps) :
              Called({ "flush", "merge", "remove", "rename" }) = SubSeq(PublishSteps, 1, n)
        /\ disk[Master].kind # "none"
        /\ pc = "done" =>
              Called({ "flush", "merge", "remove", "rename" }) = PublishSteps
        /\ (pc = "done" /\ ~renameErr) =>
              /\ disk[Staging].kind = "none"
              /\ disk[MergedTemp].kind = "none"
              /\ Readable(disk[Master])

\* A completed incremental run that started with the files of a terminated
\* run lying around: all three locations held a file, now only the published one.
C17_Witness ==
    /\ pc = "done"
    /\ Incremental
    /\ ~listFlag
    /\ ~renameErr
    /\ disk0[MergedTemp].kind # "none"
    /\ Called({ "flush", "merge", "remove", "rename" }) = PublishSteps
    /\ disk[Staging].kind = "none"
    /\ disk[MergedTemp].kind = "none"
    /\ disk[Master] # disk0[Master]

\* The number of calls of the given kind the run has made.
NumCalled(op) == Len(Called({ op }))

\* C18: a run that creates a builder registers the roots once, right after
\* index.Create and before any add, also when it adds no file; it adds files
\* only before the flush, flushes only when the loop has been through every
\* root, and has flushed exactly once when it goes on to publish or ends.
C18_RootsOnceFlushOnceLast ==
    /\ steps # << >> =>
          /\ Len(steps) >= 2
          /\ steps[1].op = "create"
          /\ steps[2].op = "paths"
          /\ NumCalled("create") = 1
          /\ NumCalled("paths") = 1
    /\ NumCalled("flush") <= 1
    /\ \A k \in 1..Len(steps) :
          steps[k].op = "add" => \A j \in 1..k : steps[j].op # "flush"
    /\ ix.open => (ix.paths = args /\ NumCalled("paths") = 1 /\ NumCalled("flush") = 0)
    /\ (NumCalled("flush") = 1 /\ pc # "killed") => rooti = Len(args) + 1
    /\ pc \in { "merge", "remove", "rename", "done" } => NumCalled("flush") = 1
    /\ pc \in { "create", "enc", "stat", "abs", "load", "reset", "list" } => steps = << >>

\* A completed run that registered a root and added no file under it.
C18_Witness ==
    /\ pc = "done"
    /\ args # << >>
    /\ ix.paths = args
    /\ steps = << Step("create", file), Step("paths", file), Step("flush", file) >>
    /\ disk[Master].roots = args

\* C15 as stated: a completed incremental run that follows a completed
\* incremental run with the same arguments, the content of the files
\* unchanged, leaves the published index with the roots and entries the first
\* run left, and no staging or merged temporary file.
C15_SecondRunChangesNothing ==
    (/\ pc = "done"
     /\ ~listFlag
     /\ ~resetFlag
     /\ ~renameErr
     /\ prev.was
     /\ prev.argv = argv
     /\ prev.content = content)
        => /\ SameIndex(disk[Master], prev.master)
           /\ disk[Staging].kind = "none"
           /\ disk[MergedTemp].kind = "none"

====
